---- MODULE Spec2Model ----
(***************************************************************************)
(* Model of databricks/koalas/indexes/datetimes.py: the DatetimeIndex      *)
(* constructor (__new__), the missing-attribute fallback (__getattr__)     *)
(* and the accessor properties (year .. days_in_month).                    *)
(*                                                                         *)
(* Every operation of the class is a synchronous call, so each one is a    *)
(* single action.  The state records the index under observation, the      *)
(* last operation with its inputs, the delegated calls that operation      *)
(* made (in order) and its outcome (a returned object or a raised error).  *)
(***************************************************************************)
EXTENDS Integers, Sequences, FiniteSets, TLC

VARIABLES
    idx,      \* the index under observation (NoIndex before construction)
    op,       \* the last operation and its inputs
    calls,    \* the delegated calls the last operation made, in order
    result,   \* the outcome of the last operation
    nextId    \* identity of the next object to be allocated

vars == <<idx, op, calls, result, nextId>>

----------------------------------------------------------------------------
(* Bounds *)

\* longest daily range used as input data
MaxPeriods == 9
\* number of object identities that can be allocated
MaxObjs == 4

----------------------------------------------------------------------------
(* Python values *)

None == [py |-> "None"]
_NoValue == [py |-> "_NoValue"]
Str(s) == [py |-> "str", v |-> s]
Tuple(items) == [py |-> "tuple", items |-> items]
List(items) == [py |-> "list", items |-> items]

NoIndex == [kind |-> "NoIndex"]
NoResult == [kind |-> "none"]
NoOp == [name |-> "none"]

DT64NS == "datetime64[ns]"

\* hash(obj) succeeds: None and str are hashable, a list is not, and a tuple
\* hashes its items, so it is hashable exactly when each of them is.
\* The labels of the model nest tuples at most one level deep.
HashableAtom(obj) == obj.py \in {"None", "str"}

is_hashable(obj) ==
    IF obj.py = "tuple"
    THEN \A i \in 1..Len(obj.items) : HashableAtom(obj.items[i])
    ELSE HashableAtom(obj)

----------------------------------------------------------------------------
(* Calendar arithmetic on timestamps.  A timestamp is [s, us]: the seconds *)
(* since 1970-01-01T00:00:00 and the microseconds within the second.       *)

SecondsPerDay == 86400

Days(ts) == ts.s \div SecondsPerDay
SecOfDay(ts) == ts.s % SecondsPerDay

IsLeap(y) == (y % 4 = 0) /\ ((y % 100 # 0) \/ (y % 400 = 0))

DaysInMonthOf(y, m) ==
    IF m = 2 THEN (IF IsLeap(y) THEN 29 ELSE 28)
    ELSE IF m \in {4, 6, 9, 11} THEN 30 ELSE 31

\* proleptic Gregorian date of a day number (days since 1970-01-01),
\* computed over 400-year eras: doe is the day of the era, yoe the year of
\* the era, doy the day of the year counted from March 1, mp the month
\* counted from March
CivilOfMp(y, doy, mp) ==
    [y |-> IF mp < 10 THEN y ELSE y + 1,
     m |-> IF mp < 10 THEN mp + 3 ELSE mp - 9,
     d |-> doy - ((153 * mp + 2) \div 5) + 1]

CivilOfDoy(y, doy) == CivilOfMp(y, doy, (5 * doy + 2) \div 153)

CivilOfYoe(era, doe, yoe) ==
    CivilOfDoy(yoe + era * 400, doe - (365 * yoe + (yoe \div 4) - (yoe \div 100)))

CivilOfDoe(era, doe) ==
    CivilOfYoe(era, doe,
               (doe - (doe \div 1460) + (doe \div 36524) - (doe \div 146096)) \div 365)

Civil(z) == CivilOfDoe((z + 719468) \div 146097, (z + 719468) % 146097)

\* day number of a proleptic Gregorian date
DaysOfEra(yoe, doy) == yoe * 365 + (yoe \div 4) - (yoe \div 100) + doy

DaysOfShifted(y, mp, d) ==
    (y \div 400) * 146097 + DaysOfEra(y % 400, ((153 * mp + 2) \div 5) + d - 1) - 719468

DaysFromCivil(y, m, d) ==
    IF m > 2 THEN DaysOfShifted(y, m - 3, d) ELSE DaysOfShifted(y - 1, m + 9, d)

\* 1970-01-01 was a Thursday (Monday=0 .. Sunday=6)
WeekdayOf(z) == (z + 3) % 7

DayOfYearOf(c, z) == z - DaysFromCivil(c.y, 1, 1) + 1

\* number of ISO weeks of a year: 53 when Jan 1 is a Thursday, or a
\* Wednesday in a leap year
IsoWeeksOfJan1(jan1, leap) == IF jan1 = 3 \/ (jan1 = 2 /\ leap) THEN 53 ELSE 52

IsoWeeksIn(y) == IsoWeeksOfJan1(WeekdayOf(DaysFromCivil(y, 1, 1)), IsLeap(y))

\* the ISO week of a date of year y whose unadjusted week number is w
IsoWeekAdjust(y, w) ==
    IF w < 1 THEN IsoWeeksIn(y - 1)
    ELSE IF w = 53 /\ IsoWeeksIn(y) = 52 THEN 1 ELSE w

IsoWeekOf(c, z) == IsoWeekAdjust(c.y, (DayOfYearOf(c, z) - (WeekdayOf(z) + 1) + 10) \div 7)

----------------------------------------------------------------------------
(* The Series datetime accessor (Series.dt) and Index.to_series.           *)

BoolMembers ==
    {"is_month_start", "is_month_end", "is_quarter_start", "is_quarter_end",
     "is_year_start", "is_year_end", "is_leap_year"}

\* Series.dt.<member> of the timestamp whose date is c (day number z), whose
\* second of the day is sod and whose month has last days
DtOfCivil(member, c, z, sod, us, last) ==
    CASE member = "year" -> c.y
      [] member = "month" -> c.m
      [] member = "day" -> c.d
      [] member = "hour" -> sod \div 3600
      [] member = "minute" -> (sod % 3600) \div 60
      [] member = "second" -> sod % 60
      [] member = "microsecond" -> us
      [] member \in {"week", "weekofyear"} -> IsoWeekOf(c, z)
      [] member \in {"dayofweek", "weekday"} -> WeekdayOf(z)
      [] member = "dayofyear" -> DayOfYearOf(c, z)
      [] member = "quarter" -> ((c.m - 1) \div 3) + 1
      [] member = "is_month_start" -> c.d = 1
      [] member = "is_month_end" -> c.d = last
      [] member = "is_quarter_start" -> c.d = 1 /\ c.m \in {1, 4, 7, 10}
      [] member = "is_quarter_end" -> c.d = last /\ c.m \in {3, 6, 9, 12}
      [] member = "is_year_start" -> c.d = 1 /\ c.m = 1
      [] member = "is_year_end" -> c.d = 31 /\ c.m = 12
      [] member = "is_leap_year" -> IsLeap(c.y)
      [] member \in {"daysinmonth", "days_in_month"} -> last

DtOfDate(member, c, z, sod, us) ==
    DtOfCivil(member, c, z, sod, us, DaysInMonthOf(c.y, c.m))

\* the value Series.dt.<member> extracts from one timestamp
DtValue(member, ts) == DtOfDate(member, Civil(Days(ts)), Days(ts), SecOfDay(ts), ts.us)

\* the values of Series.dt.<member>, position by position
DtValues(member, values) == [i \in 1..Len(values) |-> DtValue(member, values[i])]

\* Series.dt.<member>: a fresh column, same length, order and name
dt(series, member) ==
    [py |-> "Series",
     values |-> DtValues(member, series.values),
     name |-> series.name,
     dtype |-> IF member \in BoolMembers THEN "object" ELSE "int64"]

\* Index.to_series: the single-column representation of an index
to_series(self) ==
    [py |-> "Series", values |-> self.values, name |-> self.name,
     dtype |-> self.dtype]

\* Index(data, dtype, copy, name) for a Series or Index input: a new index
\* object over the same values, with the requested dtype and name
Index(data, dtype, copy, name, id) ==
    [py |-> "Index", id |-> id, values |-> data.values,
     name |-> IF name = None THEN data.name ELSE name,
     dtype |-> IF dtype = None THEN data.dtype ELSE dtype.v]

----------------------------------------------------------------------------
(* The accessor properties of DatetimeIndex.  Each converts the index to  *)
(* a Series, reads one member of its dt accessor and wraps the resulting   *)
(* column with Index(...) (dtype, copy and name left at their defaults);   *)
(* id is the identity of the object that Index(...) allocates.            *)

\* year, were it to hand back the index it was read from
year_returns_self(self, id) == self

year(self, id) == Index(dt(to_series(self), "year"), None, FALSE, None, id)

month(self, id) == Index(dt(to_series(self), "month"), None, FALSE, None, id)

day(self, id) == Index(dt(to_series(self), "day"), None, FALSE, None, id)

hour(self, id) == Index(dt(to_series(self), "hour"), None, FALSE, None, id)

minute(self, id) == Index(dt(to_series(self), "minute"), None, FALSE, None, id)

second(self, id) == Index(dt(to_series(self), "second"), None, FALSE, None, id)

microsecond(self, id) == Index(dt(to_series(self), "microsecond"), None, FALSE, None, id)

week(self, id) == Index(dt(to_series(self), "week"), None, FALSE, None, id)

weekofyear(self, id) == Index(dt(to_series(self), "weekofyear"), None, FALSE, None, id)

\* dayofweek, were it to read the day of the month
dayofweek_reads_day(self, id) == Index(dt(to_series(self), "day"), None, FALSE, None, id)

dayofweek(self, id) == Index(dt(to_series(self), "dayofweek"), None, FALSE, None, id)

day_of_week(self, id) == dayofweek(self, id)

\* weekday, were it to read the day of the month
weekday_reads_day(self, id) == Index(dt(to_series(self), "day"), None, FALSE, None, id)

weekday(self, id) == Index(dt(to_series(self), "weekday"), None, FALSE, None, id)

dayofyear(self, id) == Index(dt(to_series(self), "dayofyear"), None, FALSE, None, id)

day_of_year(self, id) == dayofyear(self, id)

quarter(self, id) == Index(dt(to_series(self), "quarter"), None, FALSE, None, id)

is_month_start(self, id) == Index(dt(to_series(self), "is_month_start"), None, FALSE, None, id)

is_month_end(self, id) == Index(dt(to_series(self), "is_month_end"), None, FALSE, None, id)

is_quarter_start(self, id) == Index(dt(to_series(self), "is_quarter_start"), None, FALSE, None, id)

is_quarter_end(self, id) == Index(dt(to_series(self), "is_quarter_end"), None, FALSE, None, id)

is_year_start(self, id) == Index(dt(to_series(self), "is_year_start"), None, FALSE, None, id)

is_year_end(self, id) == Index(dt(to_series(self), "is_year_end"), None, FALSE, None, id)

is_leap_year(self, id) == Index(dt(to_series(self), "is_leap_year"), None, FALSE, None, id)

daysinmonth(self, id) == Index(dt(to_series(self), "daysinmonth"), None, FALSE, None, id)

days_in_month(self, id) == Index(dt(to_series(self), "days_in_month"), None, FALSE, None, id)

\* the properties defined in the class body
Properties ==
    {"year", "month", "day", "hour", "minute", "second", "microsecond",
     "week", "weekofyear", "dayofweek", "day_of_week", "weekday",
     "dayofyear", "day_of_year", "quarter", "is_month_start", "is_month_end",
     "is_quarter_start", "is_quarter_end", "is_year_start", "is_year_end",
     "is_leap_year", "daysinmonth", "days_in_month"}

\* the getter of the property called item
fget(item, self, id) ==
    CASE item = "year" -> year(self, id)
      [] item = "month" -> month(self, id)
      [] item = "day" -> day(self, id)
      [] item = "hour" -> hour(self, id)
      [] item = "minute" -> minute(self, id)
      [] item = "second" -> second(self, id)
      [] item = "microsecond" -> microsecond(self, id)
      [] item = "week" -> week(self, id)
      [] item = "weekofyear" -> weekofyear(self, id)
      [] item = "dayofweek" -> dayofweek(self, id)
      [] item = "day_of_week" -> day_of_week(self, id)
      [] item = "weekday" -> weekday(self, id)
      [] item = "dayofyear" -> dayofyear(self, id)
      [] item = "day_of_year" -> day_of_year(self, id)
      [] item = "quarter" -> quarter(self, id)
      [] item = "is_month_start" -> is_month_start(self, id)
      [] item = "is_month_end" -> is_month_end(self, id)
      [] item = "is_quarter_start" -> is_quarter_start(self, id)
      [] item = "is_quarter_end" -> is_quarter_end(self, id)
      [] item = "is_year_start" -> is_year_start(self, id)
      [] item = "is_year_end" -> is_year_end(self, id)
      [] item = "is_leap_year" -> is_leap_year(self, id)
      [] item = "daysinmonth" -> daysinmonth(self, id)
      [] item = "days_in_month" -> days_in_month(self, id)

\* the docstring written in the body of each property (NoDoc: none written)
NoDoc == "<no docstring>"

OwnDoc(item) ==
    CASE item = "year" -> "The year of the datetime."
      [] item = "month" -> "The month of the timestamp as January = 1 December = 12."
      [] item = "day" -> "The days of the datetime."
      [] item = "hour" -> "The hours of the datetime."
      [] item = "minute" -> "The minutes of the datetime."
      [] item = "second" -> "The seconds of the datetime."
      [] item = "microsecond" -> "The microseconds of the datetime."
      [] item = "week" -> "The week ordinal of the year."
      [] item = "dayofweek" -> "The day of the week with Monday=0, Sunday=6."
      [] item = "dayofyear" -> "The ordinal day of the year."
      [] item = "quarter" -> "The quarter of the date."
      [] item = "is_month_start" -> "Indicates whether the date is the first day of the month."
      [] item = "is_month_end" -> "Indicates whether the date is the last day of the month."
      [] item = "is_quarter_start" -> "Indicator for whether the date is the first day of a quarter."
      [] item = "is_quarter_end" -> "Indicator for whether the date is the last day of a quarter."
      [] item = "is_year_start" -> "Indicate whether the date is the first day of a year."
      [] item = "is_year_end" -> "Indicate whether the date is the last day of the year."
      [] item = "is_leap_year" -> "Boolean indicator if the date belongs to a leap year."
      [] item = "daysinmonth" -> "The number of days in the month."
      [] OTHER -> NoDoc

\* the assignments  <target>.__doc__ = <source>.__doc__  of the class body
DocAssignments ==
    [weekofyear |-> "week", day_of_week |-> "dayofweek", weekday |-> "dayofweek",
     day_of_year |-> "dayofyear", days_in_month |-> "daysinmonth"]

\* the __doc__ of a property once the class body has run
__doc__(item) ==
    IF item \in DOMAIN DocAssignments THEN OwnDoc(DocAssignments[item])
    ELSE OwnDoc(item)

----------------------------------------------------------------------------
(* Outcomes and errors *)

Returned(v) == [kind |-> "returned", value |-> v]
Raised(e) == [kind |-> "raised", error |-> e]

IsReturned(r) == r.kind = "returned"
IsRaised(r) == r.kind = "raised"

Error(origin, type, msg) == [origin |-> origin, type |-> type, msg |-> msg]

Call(fn, args) == [fn |-> fn, args |-> args]

----------------------------------------------------------------------------
(* Date strings.  A string is modelled by the fields written in it:        *)
(*   iso    "YYYY-MM-DD hh:mm:ss.ffffff"                                   *)
(*   slash  "a/b/YYYY", read month first unless dayfirst is set            *)
(*   bad    not a date at all                                              *)

T(y, m, d, sod, us) == [s |-> DaysFromCivil(y, m, d) * SecondsPerDay + sod, us |-> us]

IsoOfCivil(c, sod, us) ==
    [py |-> "str", fmt |-> "iso", y |-> c.y, m |-> c.m, d |-> c.d,
     sod |-> sod, us |-> us]

Iso(ts) == IsoOfCivil(Civil(Days(ts)), SecOfDay(ts), ts.us)

Slash(a, b, y) == [py |-> "str", fmt |-> "slash", a |-> a, b |-> b, y |-> y]

Bad == [py |-> "str", fmt |-> "bad"]

Parseable(e) == e.fmt # "bad"

Parse(e, dayfirst) ==
    IF e.fmt = "iso" THEN T(e.y, e.m, e.d, e.sod, e.us)
    ELSE IF dayfirst THEN T(e.y, e.b, e.a, 0, 0)
    ELSE T(e.y, e.a, e.b, 0, 0)

\* consecutive values are exactly one day apart
IsDaily(values) ==
    \A i \in 1..(Len(values) - 1) :
        /\ values[i + 1].s = values[i].s + SecondsPerDay
        /\ values[i + 1].us = values[i].us

\* pd.DatetimeIndex(**kwargs) on array-like data: parses every element,
\* accepts only the nanosecond timestamp dtype, and validates an explicitly
\* passed frequency against the parsed values.  Its errors are its own.
pd_DatetimeIndex(kwargs) ==
    LET items == kwargs.data.items
        values == [i \in 1..Len(items) |-> Parse(items[i], kwargs.dayfirst)]
        freq == IF "freq" \in DOMAIN kwargs THEN kwargs.freq ELSE None
    IN IF kwargs.dtype # None /\ kwargs.dtype # Str(DT64NS)
       THEN Raised(Error("pd.DatetimeIndex", "ValueError", <<"Unexpected value for 'dtype'">>))
       ELSE IF \E i \in 1..Len(items) : ~Parseable(items[i])
       THEN Raised(Error("pd.DatetimeIndex", "ParserError", <<"Unknown string format">>))
       ELSE IF freq = Str("D") /\ ~IsDaily(values)
       THEN Raised(Error("pd.DatetimeIndex", "ValueError",
                         <<"Inferred frequency does not conform to passed frequency">>))
       ELSE Returned([py |-> "pd.DatetimeIndex", values |-> values,
                      name |-> kwargs.name, dtype |-> DT64NS, freq |-> freq])

\* ks.from_pandas(pidx): the local index imported as a new koalas index
from_pandas(pidx, id) ==
    [py |-> "Index", id |-> id, values |-> pidx.values, name |-> pidx.name,
     dtype |-> pidx.dtype]

isinstance_Series_or_Index(data) == data.py \in {"Series", "Index"}

----------------------------------------------------------------------------
(* DatetimeIndex.__new__ *)

\* kwargs_of, were an omitted freq forwarded as an explicit None
kwargs_of_default_none(a) ==
    [data |-> a.data, normalize |-> a.normalize, closed |-> a.closed,
     ambiguous |-> a.ambiguous, dayfirst |-> a.dayfirst,
     yearfirst |-> a.yearfirst, dtype |-> a.dtype, copy |-> a.copy,
     name |-> a.name, freq |-> IF a.freq = _NoValue THEN None ELSE a.freq]

\* the keywords handed to pd.DatetimeIndex
kwargs_of(a) ==
    LET base == [data |-> a.data, normalize |-> a.normalize, closed |-> a.closed,
                 ambiguous |-> a.ambiguous, dayfirst |-> a.dayfirst,
                 yearfirst |-> a.yearfirst, dtype |-> a.dtype, copy |-> a.copy,
                 name |-> a.name]
    IN IF a.freq # _NoValue
       THEN [k \in DOMAIN base \cup {"freq"} |-> IF k = "freq" THEN a.freq ELSE base[k]]
       ELSE base

\* the dtype handed to Index(...) for a Series or Index input
dtype_of(a) == IF a.dtype = None THEN Str(DT64NS) ELSE a.dtype

\* __new__, were the name validated only after the Series/Index branch
new_validates_name_late(a, id) ==
    IF isinstance_Series_or_Index(a.data)
    THEN [calls |-> <<Call("Index", [data |-> a.data, dtype |-> dtype_of(a),
                                     copy |-> a.copy, name |-> a.name])>>,
          result |-> Returned(Index(a.data, dtype_of(a), a.copy, a.name, id))]
    ELSE IF ~is_hashable(a.name)
    THEN [calls |-> <<>>,
          result |-> Raised(Error("DatetimeIndex.__new__", "TypeError",
                                  <<"Index.name must be a hashable type">>))]
    ELSE LET kwargs == kwargs_of(a)
             r == pd_DatetimeIndex(kwargs)
         IN IF IsRaised(r)
            THEN [calls |-> <<Call("pd.DatetimeIndex", kwargs)>>, result |-> r]
            ELSE [calls |-> <<Call("pd.DatetimeIndex", kwargs),
                              Call("ks.from_pandas", r.value)>>,
                  result |-> Returned(from_pandas(r.value, id))]

\* __new__, were it to catch the errors of pd.DatetimeIndex and raise its own
new_translates_errors(a, id) ==
    IF ~is_hashable(a.name)
    THEN [calls |-> <<>>,
          result |-> Raised(Error("DatetimeIndex.__new__", "TypeError",
                                  <<"Index.name must be a hashable type">>))]
    ELSE IF isinstance_Series_or_Index(a.data)
    THEN [calls |-> <<Call("Index", [data |-> a.data, dtype |-> dtype_of(a),
                                     copy |-> a.copy, name |-> a.name])>>,
          result |-> Returned(Index(a.data, dtype_of(a), a.copy, a.name, id))]
    ELSE LET kwargs == kwargs_of(a)
             r == pd_DatetimeIndex(kwargs)
         IN IF IsRaised(r)
            THEN [calls |-> <<Call("pd.DatetimeIndex", kwargs)>>,
                  result |-> Raised(Error("DatetimeIndex.__new__", "ValueError",
                                          <<"cannot build a DatetimeIndex">>))]
            ELSE [calls |-> <<Call("pd.DatetimeIndex", kwargs),
                              Call("ks.from_pandas", r.value)>>,
                  result |-> Returned(from_pandas(r.value, id))]

\* the calls made and the outcome of DatetimeIndex(**a); id is the identity
\* of the index object a successful construction allocates
__new__(a, id) ==
    IF ~is_hashable(a.name)
    THEN [calls |-> <<>>,
          result |-> Raised(Error("DatetimeIndex.__new__", "TypeError",
                                  <<"Index.name must be a hashable type">>))]
    ELSE IF isinstance_Series_or_Index(a.data)
    THEN [calls |-> <<Call("Index", [data |-> a.data, dtype |-> dtype_of(a),
                                     copy |-> a.copy, name |-> a.name])>>,
          result |-> Returned(Index(a.data, dtype_of(a), a.copy, a.name, id))]
    ELSE LET kwargs == kwargs_of(a)
             r == pd_DatetimeIndex(kwargs)
         IN IF IsRaised(r)
            THEN [calls |-> <<Call("pd.DatetimeIndex", kwargs)>>, result |-> r]
            ELSE [calls |-> <<Call("pd.DatetimeIndex", kwargs),
                              Call("ks.from_pandas", r.value)>>,
                  result |-> Returned(from_pandas(r.value, id))]

----------------------------------------------------------------------------
(* The compatibility registry and DatetimeIndex.__getattr__ *)

\* MissingPandasLikeDatetimeIndex: members pandas has and this engine lacks,
\* each registered as a property or as a function, unsupported or deprecated
MissingPandasLikeDatetimeIndex ==
    [nanosecond |-> [as |-> "property", how |-> "unsupported"],
     tz |-> [as |-> "property", how |-> "unsupported"],
     to_pydatetime |-> [as |-> "function", how |-> "unsupported"],
     to_perioddelta |-> [as |-> "function", how |-> "deprecated"]]

hasattr_Missing(item) == item \in DOMAIN MissingPandasLikeDatetimeIndex

\* what a stand-in does once invoked with the index as its first argument
StandIn(item, args) ==
    Raised(Error("MissingPandasLikeDatetimeIndex", "PandasNotImplementedError",
                 <<"DatetimeIndex", item, MissingPandasLikeDatetimeIndex[item].how>>))

partial(item, self) == [py |-> "partial", func |-> item, args |-> <<self>>]

\* __getattr__, were the final raise missing (the method falls off its end
\* and returns None)
getattr_falls_through(self, item) ==
    IF hasattr_Missing(item)
    THEN IF MissingPandasLikeDatetimeIndex[item].as = "property"
         THEN [calls |-> <<Call("hasattr", <<item>>), Call("stand-in", <<item, self>>)>>,
               result |-> StandIn(item, <<self>>)]
         ELSE [calls |-> <<Call("hasattr", <<item>>)>>,
               result |-> Returned(partial(item, self))]
    ELSE [calls |-> <<Call("hasattr", <<item>>)>>, result |-> Returned(None)]

\* __getattr__, were the isinstance(property_or_func, property) test missing
\* (every stand-in is wrapped in a partial)
getattr_always_partial(self, item) ==
    IF hasattr_Missing(item)
    THEN [calls |-> <<Call("hasattr", <<item>>)>>,
          result |-> Returned(partial(item, self))]
    ELSE [calls |-> <<Call("hasattr", <<item>>)>>,
          result |-> Raised(Error("DatetimeIndex.__getattr__", "AttributeError",
                                  <<"'DatetimeIndex' object has no attribute '", item, "'">>))]

\* the calls made and the outcome of self.__getattr__(item)
__getattr__(self, item) ==
    IF hasattr_Missing(item)
    THEN IF MissingPandasLikeDatetimeIndex[item].as = "property"
         THEN [calls |-> <<Call("hasattr", <<item>>), Call("stand-in", <<item, self>>)>>,
               result |-> StandIn(item, <<self>>)]
         ELSE [calls |-> <<Call("hasattr", <<item>>)>>,
               result |-> Returned(partial(item, self))]
    ELSE [calls |-> <<Call("hasattr", <<item>>)>>,
          result |-> Raised(Error("DatetimeIndex.__getattr__", "AttributeError",
                                  <<"'DatetimeIndex' object has no attribute '", item, "'">>))]

\* attribute lookup on an instance: a property of the type is read through
\* its getter, and __getattr__ runs only when the type has no such attribute
getattr(self, item, id) ==
    IF item \in Properties
    THEN [calls |-> <<Call("fget", <<item, self>>)>>,
          result |-> Returned(fget(item, self, id))]
    ELSE __getattr__(self, item)

\* the object is an instance of DatetimeIndex
IsDatetimeIndex(obj) == obj # NoIndex /\ obj.dtype = DT64NS

----------------------------------------------------------------------------
(* Inputs *)

Starts == {T(2016, 12, 31, 0, 0), T(2015, 12, 27, 45296, 789)}

DateRange(start, periods) ==
    [i \in 1..periods |-> [s |-> start.s + (i - 1) * SecondsPerDay, us |-> start.us]]

Periods == {1, 3, MaxPeriods}

Ranges == {DateRange(st, n) : st \in Starts, n \in Periods}

SeriesRanges == {DateRange(T(2016, 12, 31, 0, 0), n) : n \in {3, MaxPeriods}}

IsoList(values) == List([i \in 1..Len(values) |-> Iso(values[i])])

ArrayLikes ==
    {IsoList(r) : r \in Ranges}
      \cup {List(<<Slash(1, 2, 2017)>>),
            List(<<Iso(T(2016, 12, 31, 0, 0)), Bad>>),
            List(<<Iso(T(2016, 12, 31, 0, 0)), Iso(T(2017, 1, 2, 0, 0))>>)}

SeriesInputs ==
    {[py |-> "Series", values |-> r, name |-> None, dtype |-> DT64NS] : r \in SeriesRanges}

IndexInputs ==
    {[py |-> "Index", id |-> 0, values |-> r, name |-> None, dtype |-> DT64NS] :
        r \in SeriesRanges}

Datas == ArrayLikes \cup SeriesInputs \cup IndexInputs

Names ==
    {None, Str("a"), Tuple(<<Str("a"), Str("b")>>),
     List(<<Str("a")>>), Tuple(<<Str("a"), List(<<Str("b")>>)>>)}

Freqs == {_NoValue, None, Str("D")}
Closeds == {None, Str("left")}
Ambiguouses == {Str("raise"), Str("NaT")}
Dtypes == {None, Str(DT64NS), Str("object")}

\* the parsing flags: the defaults of the signature, and each flag in turn
\* given its other value
DefaultFlags ==
    [normalize |-> FALSE, closed |-> None, ambiguous |-> Str("raise"),
     dayfirst |-> FALSE, yearfirst |-> FALSE]

Flags ==
    {f \in [normalize : BOOLEAN, closed : Closeds, ambiguous : Ambiguouses,
            dayfirst : BOOLEAN, yearfirst : BOOLEAN] :
        Cardinality({k \in DOMAIN f : f[k] # DefaultFlags[k]}) <= 1}

Args ==
    {[data |-> d, freq |-> fr, normalize |-> f.normalize, closed |-> f.closed,
      ambiguous |-> f.ambiguous, dayfirst |-> f.dayfirst, yearfirst |-> f.yearfirst,
      dtype |-> dty, copy |-> c, name |-> n] :
        d \in Datas, fr \in Freqs, f \in Flags, dty \in Dtypes, c \in BOOLEAN,
        n \in Names}

Items == Properties \cup DOMAIN MissingPandasLikeDatetimeIndex \cup {"foo"}

----------------------------------------------------------------------------
(* Actions *)

Init ==
    /\ idx = NoIndex
    /\ op = NoOp
    /\ calls = <<>>
    /\ result = NoResult
    /\ nextId = 1

\* idx = DatetimeIndex(**a)
New(a) ==
    /\ op = NoOp
    /\ LET r == __new__(a, nextId)
       IN /\ op' = [name |-> "__new__", args |-> a]
          /\ calls' = r.calls
          /\ result' = r.result
          /\ idx' = IF IsReturned(r.result) THEN r.result.value ELSE NoIndex
          /\ nextId' = IF IsReturned(r.result) THEN nextId + 1 ELSE nextId

\* idx.<item>
GetAttribute(item) ==
    /\ IsDatetimeIndex(idx)
    /\ nextId <= MaxObjs
    /\ LET r == getattr(idx, item, nextId)
       IN /\ op' = [name |-> "getattr", item |-> item]
          /\ calls' = r.calls
          /\ result' = r.result
          /\ nextId' = IF IsReturned(r.result) /\ r.result.value.py = "Index"
                       THEN nextId + 1 ELSE nextId
    /\ UNCHANGED idx

\* idx.<item>(): the caller calls the partial that idx.<item> returned
CallPartial ==
    /\ IsReturned(result)
    /\ result.value.py = "partial"
    /\ LET p == result.value
       IN /\ op' = [name |-> "call", item |-> p.func]
          /\ calls' = <<Call("stand-in", <<p.func>> \o p.args)>>
          /\ result' = StandIn(p.func, p.args)
    /\ UNCHANGED <<idx, nextId>>

\* type(idx).<item>.__doc__
GetDoc(item) ==
    /\ IsDatetimeIndex(idx)
    /\ op' = [name |-> "__doc__", item |-> item]
    /\ calls' = <<>>
    /\ result' = Returned(Str(__doc__(item)))
    /\ UNCHANGED <<idx, nextId>>

Next ==
    \/ \E a \in Args : New(a)
    \/ \E item \in Items : GetAttribute(item)
    \/ CallPartial
    \/ \E item \in Properties : GetDoc(item)

Spec == Init /\ [][Next]_vars

----------------------------------------------------------------------------
(* Properties of the constructor *)

HasCall(fn) == \E i \in 1..Len(calls) : calls[i].fn = fn

Constructed == op.name = "__new__"

FromSeriesOrIndex == Constructed /\ isinstance_Series_or_Index(op.args.data)

FromArrayLike == Constructed /\ ~isinstance_Series_or_Index(op.args.data)

C2_DtypeAlwaysNanosecond ==
    (Constructed /\ IsReturned(result)) => result.value.dtype = DT64NS

\* C3: for a Series or Index input with a hashable name, pd.DatetimeIndex is
\* never called, the parsing configuration has no effect on the result, the
\* dtype is coerced to datetime64[ns] and the values are those of the input.
C3_SeriesOrIndexInput ==
    (FromSeriesOrIndex /\ is_hashable(op.args.name)) =>
        /\ ~HasCall("pd.DatetimeIndex")
        /\ IsReturned(result)
        /\ result.value.dtype = DT64NS
        /\ result.value.values = op.args.data.values
        /\ \A f \in Flags, fr \in Freqs :
              __new__([op.args EXCEPT !.freq = fr, !.normalize = f.normalize,
                                      !.closed = f.closed, !.ambiguous = f.ambiguous,
                                      !.dayfirst = f.dayfirst, !.yearfirst = f.yearfirst],
                      result.value.id).result = result

ForwardedAlways ==
    {"data", "normalize", "closed", "ambiguous", "dayfirst", "yearfirst",
     "dtype", "copy", "name"}

\* C4: on the array-like path pd.DatetimeIndex receives a freq keyword exactly
\* when the caller passed one (an explicit None included), with the caller's
\* value, and receives every other keyword with the caller's value.
C4_FreqForwardedIffSupplied ==
    (FromArrayLike /\ is_hashable(op.args.name)) =>
        /\ calls # <<>>
        /\ calls[1].fn = "pd.DatetimeIndex"
        /\ LET kw == calls[1].args
           IN /\ ("freq" \in DOMAIN kw) <=> (op.args.freq # _NoValue)
              /\ ("freq" \in DOMAIN kw) => kw.freq = op.args.freq
              /\ DOMAIN kw \ {"freq"} = ForwardedAlways
              /\ \A k \in ForwardedAlways : kw[k] = op.args[k]

C4_Witness ==
    /\ FromArrayLike
    /\ is_hashable(op.args.name)
    /\ IsReturned(result)
    /\ op.args.freq = None
    /\ calls # <<>>
    /\ calls[1].fn = "pd.DatetimeIndex"
    /\ "freq" \in DOMAIN calls[1].args
    /\ calls[1].args.freq = None

----------------------------------------------------------------------------
(* Properties of attribute access *)

Accessed == op.name = "getattr"

InRegistry(item) == item \in {"nanosecond", "tz", "to_pydatetime", "to_perioddelta"}

RegisteredAsProperty(item) == item \in {"nanosecond", "tz"}

StandInCalledWith(item, self) ==
    \E i \in 1..Len(calls) : calls[i] = Call("stand-in", <<item, self>>)

NotImplementedRaised(item) ==
    /\ IsRaised(result)
    /\ result.error.type = "PandasNotImplementedError"
    /\ result.error.origin = "MissingPandasLikeDatetimeIndex"
    /\ result.error.msg[2] = item

\* C5: an attribute absent from both the type and the registry fails with an
\* attribute error naming 'DatetimeIndex' and the attribute; an attribute the
\* type defines is served by its getter and the registry is not consulted.
C5_AbsentAttribute ==
    Accessed =>
        /\ (op.item \notin Properties /\ ~InRegistry(op.item)) =>
              /\ IsRaised(result)
              /\ result.error.type = "AttributeError"
              /\ result.error.msg =
                    <<"'DatetimeIndex' object has no attribute '", op.item, "'">>
        /\ op.item \in Properties =>
              /\ ~HasCall("hasattr")
              /\ ~HasCall("stand-in")
              /\ IsReturned(result)

C5_Witness ==
    /\ Accessed
    /\ op.item = "foo"
    /\ IsRaised(result)
    /\ result.error.type = "AttributeError"
    /\ HasCall("hasattr")

\* C6 as stated: reading any attribute found in the registry invokes the
\* stand-in with the index as first argument and fails at access time, for
\* property and function registrations alike.
C6_StandInInvokedAtAccess ==
    (Accessed /\ op.item \notin Properties /\ InRegistry(op.item)) =>
        /\ StandInCalledWith(op.item, idx)
        /\ NotImplementedRaised(op.item)

\* C6 amended: a stand-in registered as a property is invoked with the index
\* as first argument at access time and fails there; for a stand-in
\* registered as a function the access invokes nothing and returns a callable
\* with the index bound as first argument, and the stand-in is invoked (index
\* first) and fails only when that callable is called.
C6_StandInByRegistration ==
    /\ (Accessed /\ op.item \notin Properties /\ InRegistry(op.item)) =>
          IF RegisteredAsProperty(op.item)
          THEN StandInCalledWith(op.item, idx) /\ NotImplementedRaised(op.item)
          ELSE /\ ~HasCall("stand-in")
               /\ result = Returned([py |-> "partial", func |-> op.item, args |-> <<idx>>])
    /\ op.name = "call" =>
          /\ ~RegisteredAsProperty(op.item)
          /\ StandInCalledWith(op.item, idx)
          /\ NotImplementedRaised(op.item)

C6_Witness ==
    /\ op.name = "call"
    /\ op.item = "to_pydatetime"
    /\ StandInCalledWith("to_pydatetime", idx)
    /\ NotImplementedRaised("to_pydatetime")

\* the canonical accessor of each alias
Canonical ==
    [weekofyear |-> "week", day_of_week |-> "dayofweek", weekday |-> "dayofweek",
     day_of_year |-> "dayofyear", days_in_month |-> "daysinmonth"]

\* C7: each alias accessor returns, on the same index, exactly what its
\* canonical accessor returns (weekofyear/week, day_of_week and
\* weekday/dayofweek, day_of_year/dayofyear, days_in_month/daysinmonth), and
\* carries the docstring written on the canonical accessor.
C7_AliasesAgree ==
    /\ (Accessed /\ op.item \in DOMAIN Canonical) =>
          /\ IsReturned(result)
          /\ result.value = fget(Canonical[op.item], idx, result.value.id)
    /\ (op.name = "__doc__" /\ op.item \in DOMAIN Canonical) =>
          /\ result = Returned(Str(OwnDoc(Canonical[op.item])))
          /\ result.value.v # NoDoc

C7_Witness ==
    /\ Accessed
    /\ op.item = "weekday"
    /\ IsReturned(result)
    /\ Len(idx.values) = MaxPeriods
    /\ result.value.values = dayofweek(idx, result.value.id).values
    /\ result.value.values # day(idx, result.value.id).values

\* C8: once constructed the index never changes (values, name and dtype stay
\* as they were), whatever is read from it, and every accessor read returns
\* an index object other than the original.
C8_Immutable ==
    /\ [][idx # NoIndex => idx' = idx]_vars
    /\ []((Accessed /\ op.item \in Properties) =>
             /\ IsReturned(result)
             /\ result.value.py = "Index"
             /\ result.value.id # idx.id)

C8_Witness ==
    /\ Accessed
    /\ op.item \in Properties
    /\ nextId = 4
    /\ IsReturned(result)
    /\ result.value.id = 3
    /\ idx.id = 1
    /\ idx.dtype = DT64NS

\* C9 as stated: a constructor call or attribute access that fails ends in
\* the constructor's type error for an unhashable name, in the attribute
\* error for an absent member, or in an error of pd.DatetimeIndex passed on
\* unchanged; nothing else.
C9_TwoErrorKindsOnly ==
    (op.name \in {"__new__", "getattr"} /\ IsRaised(result)) =>
        \/ /\ Constructed
           /\ result.error.origin = "DatetimeIndex.__new__"
           /\ result.error.type = "TypeError"
           /\ ~is_hashable(op.args.name)
        \/ /\ Accessed
           /\ result.error.origin = "DatetimeIndex.__getattr__"
           /\ result.error.type = "AttributeError"
           /\ op.item \notin Properties /\ ~InRegistry(op.item)
        \/ /\ Constructed
           /\ calls # <<>>
           /\ calls[Len(calls)].fn = "pd.DatetimeIndex"
           /\ result = pd_DatetimeIndex(calls[Len(calls)].args)

\* C9 amended: the module raises only those two errors itself; every other
\* failure of a constructor call or attribute access is the error of the
\* callee that ran last (pd.DatetimeIndex, or a registry stand-in's "not
\* implemented" failure), passed on unchanged.
C9_ErrorKinds ==
    (op.name \in {"__new__", "getattr"} /\ IsRaised(result)) =>
        \/ /\ Constructed
           /\ result.error.origin = "DatetimeIndex.__new__"
           /\ result.error.type = "TypeError"
           /\ ~is_hashable(op.args.name)
        \/ /\ Accessed
           /\ result.error.origin = "DatetimeIndex.__getattr__"
           /\ result.error.type = "AttributeError"
           /\ op.item \notin Properties /\ ~InRegistry(op.item)
        \/ /\ Constructed
           /\ calls # <<>>
           /\ calls[Len(calls)].fn = "pd.DatetimeIndex"
           /\ result = pd_DatetimeIndex(calls[Len(calls)].args)
        \/ /\ Accessed
           /\ RegisteredAsProperty(op.item)
           /\ calls # <<>>
           /\ calls[Len(calls)] = Call("stand-in", <<op.item, idx>>)
           /\ result = StandIn(op.item, <<idx>>)

C9_Witness ==
    /\ Constructed
    /\ is_hashable(op.args.name)
    /\ IsRaised(result)
    /\ result.error.origin = "pd.DatetimeIndex"
    /\ result.error.type = "ParserError"

\* Monday=0 .. Sunday=6 from 2016-12-31 (a Saturday) on
DayOfWeekFrom20161231 == <<5, 6, 0, 1, 2, 3, 4, 5, 6>>

\* C10: dayofweek keeps the length and order of the index and numbers the
\* days Monday=0 .. Sunday=6: over a daily index the number advances by one
\* modulo 7 from each position to the next, and over the daily index starting
\* at 2016-12-31 the first nine results are 5,6,0,1,2,3,4,5,6.
C10_DayOfWeek ==
    (Accessed /\ op.item = "dayofweek") =>
        /\ IsReturned(result)
        /\ LET r == result.value.values
           IN /\ Len(r) = Len(idx.values)
              /\ \A i \in 1..Len(r) : r[i] \in 0..6
              /\ IsDaily(idx.values) =>
                    \A i \in 1..(Len(r) - 1) : r[i + 1] = (r[i] + 1) % 7
              /\ (IsDaily(idx.values) /\ idx.values[1] = T(2016, 12, 31, 0, 0)) =>
                    \A i \in 1..Len(r) : i <= 9 => r[i] = DayOfWeekFrom20161231[i]

C10_Witness ==
    /\ Accessed
    /\ op.item = "dayofweek"
    /\ idx.values = DateRange(T(2016, 12, 31, 0, 0), 9)
    /\ IsReturned(result)
    /\ result.value.values = DayOfWeekFrom20161231

====
